---- MODULE Spec2Model ----
(***************************************************************************)
(* Range-sum queries over a 2-D integer matrix: the row-prefix-sum method  *)
(* (src/src/rowsum.rs) and the summed-area-table method                    *)
(* (src/src/allsum.rs), driven as in src/src/main.rs: both matrices are    *)
(* built from the same row source and asked the same query.                *)
(*                                                                         *)
(* Vectors are 1-based sequences here and 0-based in the source: the       *)
(* source's v[i] is v[i + 1] below.  Cell values are small integers, far   *)
(* from the limits of i64, so i64 arithmetic is exact integer arithmetic.  *)
(* An index past the end of a Vec aborts the program (a panic); it is the  *)
(* result <<"Panic">> of the operation.                                    *)
(***************************************************************************)
EXTENDS Integers, Sequences, FiniteSets, TLC

\* ------------------------------------------------------------- bounds
MaxRows == 2
MaxCols == 2

\* Cell values the row source draws from.
Vals == {-1, 2}

\* Query coordinates are usize: 0 .. MaxCoord, one past every extent.
MaxCoord == (IF MaxRows > MaxCols THEN MaxRows ELSE MaxCols) + 1
Coords == 0 .. MaxCoord

\* ------------------------------------------------------------- row source
\* One item of rdr.deserialize(): Err (ok = FALSE) or Ok(Row { cols }).
\* The csv reader skips empty lines, so a record has at least one field.
BadRecord == [ok |-> FALSE, cols |-> <<>>]

RowsOfLen(n) == [1 .. n -> Vals]

Records == {BadRecord} \cup
           { [ok |-> TRUE, cols |-> r] : r \in UNION { RowsOfLen(n) : n \in 1 .. MaxCols } }

Sources == UNION { [1 .. n -> Records] : n \in 0 .. MaxRows }

\* The matrix in the closing comments of rowsum.rs and allsum.rs (sample.csv).
Sample == << [ok |-> TRUE, cols |-> <<1, 2, 5, 11>>],
             [ok |-> TRUE, cols |-> <<5, 9, 11, 15>>],
             [ok |-> TRUE, cols |-> <<2, 17, 8, -10>>] >>

VARIABLES
    source,     \* the records the row source yields, in order
    pc,         \* the driver's position
    rsNew,      \* rowsum::Matrix::new: its locals and how it returned
    rsMatrix,   \* what rowsum::Matrix::new returned as Ok: <<>> or <<matrix>>
    asNew,      \* allsum::Matrix::new: its locals and how it returned
    asMatrix,   \* what allsum::Matrix::new returned as Ok: <<>> or <<matrix>>
    query,      \* the last query <<startx, starty, endx, endy>>, or <<>>
    rsSum,      \* rowsum's result for query, or <<>>
    asSum       \* allsum's result for query, or <<>>

vars == <<source, pc, rsNew, rsMatrix, asNew, asMatrix, query, rsSum, asSum>>

\* ------------------------------------------------------------- construction
\* `let row: Row = result?;`
ParseFails(rec) == ~rec.ok

ColsMismatch_never(ncols, rl) == FALSE

\* `if ncols == 0 { .. } else if ncols != rl { return Err(..) }`
ColsMismatch(ncols, rl) == ncols # 0 /\ ncols # rl

NextNcols_unset(ncols, rl) == ncols

\* `if ncols == 0 { ncols = rl }`
NextNcols(ncols, rl) == IF ncols = 0 THEN rl ELSE ncols

RECURSIVE PrefixFrom(_, _, _)
\* The loop of precomp_rowsum from column ci (0-based) with running sum `sum`.
PrefixFrom(cols, ci, sum) ==
    IF ci >= Len(cols) THEN <<>>
    ELSE <<sum + cols[ci + 1]>> \o PrefixFrom(cols, ci + 1, sum + cols[ci + 1])

precomp_rowsum_nosum(cols) == cols

precomp_rowsum(cols) == PrefixFrom(cols, 0, 0)

\* `allsum.last().unwrap_or_else(|| &defrow)`
PrevSumRow(cols, allsum) ==
    IF Len(allsum) = 0 THEN [c \in 1 .. Len(cols) |-> 0] ELSE allsum[Len(allsum)]

\* `psr.cols[ci]` past the end of the previous table row.
PrecompAllsumPanics(cols, allsum) == Len(cols) > Len(PrevSumRow(cols, allsum))

precomp_allsum_noprev(cols, allsum) == PrefixFrom(cols, 0, 0)

precomp_allsum(cols, allsum) ==
    LET psr == PrevSumRow(cols, allsum)
        run == PrefixFrom(cols, 0, 0)
    IN  [c \in 1 .. Len(cols) |-> run[c] + psr[c]]

Running == <<"running">>

\* The locals of rowsum::Matrix::new before the loop; pos counts the records read.
RowsumFrame == [pos |-> 0, ncols |-> 0, elems |-> <<>>, presum |-> <<>>, ret |-> Running]

\* The locals of allsum::Matrix::new before the loop.
AllsumFrame == [pos |-> 0, ncols |-> 0, elems |-> <<>>, allsum |-> <<>>, ret |-> Running]

RowsumNewBody_skipbad(f, rec) ==
    IF ParseFails(rec) THEN [f EXCEPT !.pos = @ + 1]
    ELSE LET rl == Len(rec.cols)
             pushed == [f EXCEPT !.elems = Append(@, rec.cols)]
         IN  IF ColsMismatch(f.ncols, rl)
             THEN [pushed EXCEPT !.ret = <<"ShapeErr", f.ncols, rl>>]
             ELSE [pushed EXCEPT !.ncols = NextNcols(f.ncols, rl),
                                 !.presum = Append(@, precomp_rowsum(rec.cols)),
                                 !.pos = @ + 1]

\* One iteration of the loop of rowsum::Matrix::new, on record rec.
RowsumNewBody(f, rec) ==
    IF ParseFails(rec) THEN [f EXCEPT !.ret = <<"ParseErr">>]
    ELSE LET rl == Len(rec.cols)
             pushed == [f EXCEPT !.elems = Append(@, rec.cols)]
         IN  IF ColsMismatch(f.ncols, rl)
             THEN [pushed EXCEPT !.ret = <<"ShapeErr", f.ncols, rl>>]
             ELSE [pushed EXCEPT !.ncols = NextNcols(f.ncols, rl),
                                 !.presum = Append(@, precomp_rowsum(rec.cols)),
                                 !.pos = @ + 1]

\* One iteration of the loop of allsum::Matrix::new, on record rec.
AllsumNewBody(f, rec) ==
    IF ParseFails(rec) THEN [f EXCEPT !.ret = <<"ParseErr">>]
    ELSE LET rl == Len(rec.cols)
             pushed == [f EXCEPT !.elems = Append(@, rec.cols)]
         IN  IF ColsMismatch(f.ncols, rl)
             THEN [pushed EXCEPT !.ret = <<"ShapeErr", f.ncols, rl>>]
             ELSE IF PrecompAllsumPanics(rec.cols, f.allsum)
             THEN [pushed EXCEPT !.ncols = NextNcols(f.ncols, rl), !.ret = <<"Panic">>]
             ELSE [pushed EXCEPT !.ncols = NextNcols(f.ncols, rl),
                                 !.allsum = Append(@, precomp_allsum(rec.cols, f.allsum)),
                                 !.pos = @ + 1]

\* `Ok(Matrix { ncols, elems, presum })`
RowsumMatrix(f) == [ncols |-> f.ncols, elems |-> f.elems, presum |-> f.presum]

\* `Ok(Matrix { ncols, elems, allsum })`
AllsumMatrix(f) == [ncols |-> f.ncols, elems |-> f.elems, allsum |-> f.allsum]

\* ------------------------------------------------------------- queries
EndxOutOfRange_off(endx, ncols) == endx > ncols

\* `if endx >= self.ncols { return Err(..) }`
EndxOutOfRange(endx, ncols) == endx >= ncols

\* `if endy >= self.elems.len() { return Err(..) }`
EndyOutOfRange(endy, nrows) == endy >= nrows

\* v[i] of a Vec aborts when i is past the end (i is 0-based).
Past(v, i) == i >= Len(v)

RECURSIVE RowsumLoop_inclusive(_, _, _, _, _, _)
RowsumLoop_inclusive(presum, startx, endx, j, endy, sum) ==
    IF j > endy + 1 THEN <<"Ok", sum>>
    ELSE IF Past(presum, j) THEN <<"Panic">>
    ELSE IF startx # 0 /\ Past(presum[j + 1], startx - 1) THEN <<"Panic">>
    ELSE IF Past(presum[j + 1], endx) THEN <<"Panic">>
    ELSE LET start == IF startx # 0 THEN presum[j + 1][startx] ELSE 0
         IN  RowsumLoop_inclusive(presum, startx, endx, j + 1, endy,
                                  sum + (presum[j + 1][endx + 1] - start))

RECURSIVE RowsumLoop(_, _, _, _, _, _)
\* `for j in starty..(endy + 1)` of rowsum::Matrix::sum, from row j with the
\* running total sum.
RowsumLoop(presum, startx, endx, j, endy, sum) ==
    IF j >= endy + 1 THEN <<"Ok", sum>>
    ELSE IF Past(presum, j) THEN <<"Panic">>
    ELSE IF startx # 0 /\ Past(presum[j + 1], startx - 1) THEN <<"Panic">>
    ELSE IF Past(presum[j + 1], endx) THEN <<"Panic">>
    ELSE LET start == IF startx # 0 THEN presum[j + 1][startx] ELSE 0
         IN  RowsumLoop(presum, startx, endx, j + 1, endy,
                        sum + (presum[j + 1][endx + 1] - start))

RowsumSum_offbyone(m, startx, starty, endx, endy) ==
    IF EndxOutOfRange(endx, m.ncols) THEN <<"Err", "endx">>
    ELSE IF EndyOutOfRange(endy, Len(m.elems)) THEN <<"Err", "endy">>
    ELSE RowsumLoop(m.presum, startx + 1, endx, starty, endy, 0)

\* rowsum::Matrix::sum
RowsumSum(m, startx, starty, endx, endy) ==
    IF EndxOutOfRange(endx, m.ncols) THEN <<"Err", "endx">>
    ELSE IF EndyOutOfRange(endy, Len(m.elems)) THEN <<"Err", "endy">>
    ELSE RowsumLoop(m.presum, startx, endx, starty, endy, 0)

\* The four table reads of allsum::Matrix::sum, in the order the code makes
\* them; TRUE when one of them is past the end.
AllsumReadsPanic(allsum, startx, starty, endx, endy) ==
    \/ Past(allsum, endy)
    \/ Past(allsum[endy + 1], endx)
    \/ startx > 0 /\ Past(allsum[endy + 1], startx - 1)
    \/ starty > 0 /\ Past(allsum, starty - 1)
    \/ starty > 0 /\ Past(allsum[starty], endx)
    \/ startx > 0 /\ starty > 0 /\ Past(allsum[starty], startx - 1)

AllsumSum_nocorner(m, startx, starty, endx, endy) ==
    IF EndxOutOfRange(endx, m.ncols) THEN <<"Err", "endx">>
    ELSE IF EndyOutOfRange(endy, Len(m.elems)) THEN <<"Err", "endy">>
    ELSE IF AllsumReadsPanic(m.allsum, startx, starty, endx, endy) THEN <<"Panic">>
    ELSE <<"Ok", m.allsum[endy + 1][endx + 1]
                 - (IF startx > 0 THEN m.allsum[endy + 1][startx] ELSE 0)
                 - (IF starty > 0 THEN m.allsum[starty][endx + 1] ELSE 0)>>

\* allsum::Matrix::sum
AllsumSum(m, startx, starty, endx, endy) ==
    IF EndxOutOfRange(endx, m.ncols) THEN <<"Err", "endx">>
    ELSE IF EndyOutOfRange(endy, Len(m.elems)) THEN <<"Err", "endy">>
    ELSE IF AllsumReadsPanic(m.allsum, startx, starty, endx, endy) THEN <<"Panic">>
    ELSE <<"Ok", m.allsum[endy + 1][endx + 1]
                 - (IF startx > 0 THEN m.allsum[endy + 1][startx] ELSE 0)
                 - (IF starty > 0 THEN m.allsum[starty][endx + 1] ELSE 0)
                 + (IF startx > 0 /\ starty > 0 THEN m.allsum[starty][startx] ELSE 0)>>

\* ------------------------------------------------------------- the program
Init ==
    /\ source \in Sources \cup {Sample}
    /\ pc = "rowsum_new"
    /\ rsNew = RowsumFrame
    /\ rsMatrix = <<>>
    /\ asNew = AllsumFrame
    /\ asMatrix = <<>>
    /\ query = <<>>
    /\ rsSum = <<>>
    /\ asSum = <<>>

\* rowsum::Matrix::new reads the next record: one iteration of its loop. An
\* error return leaves the function; the driver goes on to the other method.
RowsumNewStep ==
    /\ pc = "rowsum_new"
    /\ rsNew.pos < Len(source)
    /\ rsNew' = RowsumNewBody(rsNew, source[rsNew.pos + 1])
    /\ pc' = IF rsNew'.ret = Running THEN "rowsum_new" ELSE "allsum_new"
    /\ UNCHANGED <<source, rsMatrix, asNew, asMatrix, query, rsSum, asSum>>

\* The row source is exhausted: rowsum::Matrix::new returns Ok(Matrix { .. }).
RowsumNewReturn ==
    /\ pc = "rowsum_new"
    /\ rsNew.pos >= Len(source)
    /\ rsNew' = [rsNew EXCEPT !.ret = <<"Ok">>]
    /\ rsMatrix' = <<RowsumMatrix(rsNew)>>
    /\ pc' = "allsum_new"
    /\ UNCHANGED <<source, asNew, asMatrix, query, rsSum, asSum>>

\* allsum::Matrix::new reads the next record.
AllsumNewStep ==
    /\ pc = "allsum_new"
    /\ asNew.pos < Len(source)
    /\ asNew' = AllsumNewBody(asNew, source[asNew.pos + 1])
    /\ pc' = IF asNew'.ret = Running THEN "allsum_new"
             ELSE IF asNew'.ret = <<"Panic">> THEN "aborted" ELSE "query"
    /\ UNCHANGED <<source, rsNew, rsMatrix, asMatrix, query, rsSum, asSum>>

\* The row source is exhausted: allsum::Matrix::new returns Ok(Matrix { .. }).
AllsumNewReturn ==
    /\ pc = "allsum_new"
    /\ asNew.pos >= Len(source)
    /\ asNew' = [asNew EXCEPT !.ret = <<"Ok">>]
    /\ asMatrix' = <<AllsumMatrix(asNew)>>
    /\ pc' = "query"
    /\ UNCHANGED <<source, rsNew, rsMatrix, query, rsSum, asSum>>

\* `m.sum(startx, starty, endx, endy)` on the rowsum matrix: the driver's query.
RowsumSumCall ==
    /\ pc = "query"
    /\ rsMatrix # <<>>
    /\ query = <<>>
    /\ \E startx \in Coords, starty \in Coords, endx \in Coords, endy \in Coords :
          /\ query' = <<startx, starty, endx, endy>>
          /\ rsSum' = RowsumSum(rsMatrix[1], startx, starty, endx, endy)
    /\ asSum' = <<>>
    /\ pc' = IF rsSum' = <<"Panic">> THEN "aborted" ELSE "query"
    /\ UNCHANGED <<source, rsNew, rsMatrix, asNew, asMatrix>>

\* `m.sum(..)` on the allsum matrix, with the coordinates the rowsum matrix
\* was just asked.
AllsumSumCall ==
    /\ pc = "query"
    /\ asMatrix # <<>>
    /\ query # <<>>
    /\ asSum = <<>>
    /\ asSum' = AllsumSum(asMatrix[1], query[1], query[2], query[3], query[4])
    /\ pc' = IF asSum' = <<"Panic">> THEN "aborted" ELSE "query"
    /\ UNCHANGED <<source, rsNew, rsMatrix, asNew, asMatrix, query, rsSum>>

Next ==
    \/ RowsumNewStep
    \/ RowsumNewReturn
    \/ AllsumNewStep
    \/ AllsumNewReturn
    \/ RowsumSumCall
    \/ AllsumSumCall

Spec == Init /\ [][Next]_vars

\* ------------------------------------------------------------- reference sums
\* original[y][x], 0-based, of the rows the source yielded.
Cell(x, y) == source[y + 1].cols[x + 1]

RECURSIVE RowSpan(_, _, _)
\* original[y][x0] + .. + original[y][x1]; 0 when x0 > x1.
RowSpan(y, x0, x1) == IF x0 > x1 THEN 0 ELSE Cell(x0, y) + RowSpan(y, x0 + 1, x1)

RECURSIVE BruteSum(_, _, _, _)
\* The sum of the cells with x0 <= x <= x1 and y0 <= y <= y1, cell by cell.
BruteSum(x0, y0, x1, y1) ==
    IF y0 > y1 THEN 0 ELSE RowSpan(y0, x0, x1) + BruteSum(x0, y0 + 1, x1, y1)

\* ------------------------------------------------------------- the query made
startx == query[1]
starty == query[2]
endx == query[3]
endy == query[4]

RowsumAsked == query # <<>> /\ rsSum # <<>>
AllsumAsked == query # <<>> /\ asSum # <<>>
BothAsked == RowsumAsked /\ AllsumAsked

\* endx < ncols and endy < row count, of the rows the source yielded.
InRange == Len(source) > 0 /\ endy < Len(source) /\ endx < Len(source[1].cols)
Ordered == startx <= endx /\ starty <= endy

\* ------------------------------------------------------------- C1
\* C1 (equivalence): on matrices built from the same rows, for a query with
\* startx <= endx < ncols and starty <= endy < row count, rowsum's sum and
\* allsum's sum both return Ok, with the same value.
C1_Equivalence ==
    (BothAsked /\ InRange /\ Ordered) =>
        /\ rsSum[1] = "Ok"
        /\ asSum[1] = "Ok"
        /\ rsSum[2] = asSum[2]

\* Both methods answered an in-range ordered query on a rectangle of two rows
\* and two columns that starts off the origin, with a non-zero sum.
C1_Witness ==
    /\ BothAsked /\ InRange /\ Ordered
    /\ 0 < startx /\ startx < endx /\ 0 < starty /\ starty < endy
    /\ rsSum[1] = "Ok" /\ asSum = rsSum /\ rsSum[2] # 0

\* ------------------------------------------------------------- C2
\* C2 (range-sum correctness): for each method, an in-range ordered query
\* returns the cell-by-cell sum of the original cells in the rectangle; so
\* sum(x, y, x, y) is original[y][x], sum(0, 0, ncols-1, nrows-1) is the
\* total of all cells, and sum(1, 1, 3, 2) is 50 on the sample rows.
C2_RangeSumCorrect ==
    /\ (RowsumAsked /\ InRange /\ Ordered) =>
          /\ rsSum = <<"Ok", BruteSum(startx, starty, endx, endy)>>
          /\ (startx = endx /\ starty = endy) => rsSum[2] = Cell(startx, starty)
          /\ (source = Sample /\ query = <<1, 1, 3, 2>>) => rsSum[2] = 50
    /\ (AllsumAsked /\ InRange /\ Ordered) =>
          /\ asSum = <<"Ok", BruteSum(startx, starty, endx, endy)>>
          /\ (startx = endx /\ starty = endy) => asSum[2] = Cell(startx, starty)
          /\ (source = Sample /\ query = <<1, 1, 3, 2>>) => asSum[2] = 50

\* The worked example: both methods answered sum(1, 1, 3, 2) on the sample.
C2_Witness ==
    /\ source = Sample /\ query = <<1, 1, 3, 2>>
    /\ rsSum = <<"Ok", 50>> /\ asSum = <<"Ok", 50>>

\* ------------------------------------------------------------- C3
\* C3 (decomposition law): for each method and an in-range ordered query,
\* the sum equals the sum left of and including column k plus the sum right
\* of it, for every startx <= k < endx, and the sum above and including row
\* m plus the sum below it, for every starty <= m < endy.
Plus(a, b) == IF a[1] = "Ok" /\ b[1] = "Ok" THEN <<"Ok", a[2] + b[2]>> ELSE <<"Undefined">>

C3_Decomposition ==
    /\ (RowsumAsked /\ InRange /\ Ordered) =>
          LET m == rsMatrix[1] IN
          /\ \A k \in startx .. endx - 1 :
                rsSum = Plus(RowsumSum(m, startx, starty, k, endy),
                             RowsumSum(m, k + 1, starty, endx, endy))
          /\ \A r \in starty .. endy - 1 :
                rsSum = Plus(RowsumSum(m, startx, starty, endx, r),
                             RowsumSum(m, startx, r + 1, endx, endy))
    /\ (AllsumAsked /\ InRange /\ Ordered) =>
          LET m == asMatrix[1] IN
          /\ \A k \in startx .. endx - 1 :
                asSum = Plus(AllsumSum(m, startx, starty, k, endy),
                             AllsumSum(m, k + 1, starty, endx, endy))
          /\ \A r \in starty .. endy - 1 :
                asSum = Plus(AllsumSum(m, startx, starty, endx, r),
                             AllsumSum(m, startx, r + 1, endx, endy))

\* Both methods answered a query that can be split both ways, off the origin.
C3_Witness ==
    /\ BothAsked /\ InRange /\ Ordered
    /\ 0 < startx /\ startx < endx /\ 0 < starty /\ starty < endy
    /\ rsSum[1] = "Ok" /\ asSum[1] = "Ok"
    /\ rsSum = Plus(RowsumSum(rsMatrix[1], startx, starty, startx, endy),
                    RowsumSum(rsMatrix[1], startx + 1, starty, endx, endy))

\* ------------------------------------------------------------- C4
\* C4 (bounds validation): for each method and every constructed matrix, sum
\* returns an error, and never reaches a table read, whenever endx >= ncols
\* or endy >= row count, so every query on the matrix built from an empty
\* source (ncols = 0) is an error; and it returns Ok whenever endx < ncols,
\* endy < row count, startx <= endx and starty <= endy.
BoundsValidated(m, res) ==
    /\ (endx >= m.ncols \/ endy >= Len(m.elems)) => res[1] = "Err"
    /\ m.ncols = 0 => res[1] = "Err"
    /\ (endx < m.ncols /\ endy < Len(m.elems) /\ Ordered) => res[1] = "Ok"

C4_BoundsValidation ==
    /\ RowsumAsked => BoundsValidated(rsMatrix[1], rsSum)
    /\ AllsumAsked => BoundsValidated(asMatrix[1], asSum)

\* Both methods refused a query whose endy is the row count of a non-empty
\* matrix, although its startx lies past every table row.
C4_Witness ==
    /\ BothAsked
    /\ rsMatrix[1].ncols > 0
    /\ endx < rsMatrix[1].ncols /\ endy = Len(rsMatrix[1].elems)
    /\ startx > rsMatrix[1].ncols
    /\ rsSum[1] = "Err" /\ asSum[1] = "Err"

\* ------------------------------------------------------------- C5
\* C5 (shape validation): fed rows that all parse, Matrix::new of either
\* method fails with a shape-mismatch error, carrying the established ncols
\* and the offending length, at the first row whose length differs from the
\* first row's; so every matrix returned has all rows of elems of length
\* ncols.
AllParse == \A k \in 1 .. Len(source) : source[k].ok

Mismatching == { k \in 1 .. Len(source) : Len(source[k].cols) # Len(source[1].cols) }

FirstMismatch == CHOOSE k \in Mismatching : \A j \in Mismatching : k <= j

ShapeValidated(f, returned) ==
    (AllParse /\ f.ret # Running) =>
        /\ Mismatching # {} =>
              /\ f.ret = <<"ShapeErr", Len(source[1].cols), Len(source[FirstMismatch].cols)>>
              /\ f.pos = FirstMismatch - 1
              /\ returned = <<>>
        /\ Mismatching = {} =>
              /\ f.ret = <<"Ok">>
              /\ returned # <<>>
              /\ \A k \in 1 .. Len(returned[1].elems) :
                    Len(returned[1].elems[k]) = returned[1].ncols

C5_ShapeValidation ==
    /\ ShapeValidated(rsNew, rsMatrix)
    /\ ShapeValidated(asNew, asMatrix)

\* Both constructors stopped with a shape-mismatch error at the second row.
C5_Witness ==
    /\ AllParse /\ Mismatching # {} /\ FirstMismatch = 2
    /\ rsNew.ret[1] = "ShapeErr" /\ asNew.ret[1] = "ShapeErr"

\* ------------------------------------------------------------- C6
\* C6 as stated (non-emptiness): every matrix Matrix::new returns as Ok has
\* ncols >= 1 and row count >= 1, whatever the row source yields, a source
\* with no records included.
NonEmpty(returned) ==
    returned # <<>> => (returned[1].ncols >= 1 /\ Len(returned[1].elems) >= 1)

C6_NonEmptyAsStated == NonEmpty(rsMatrix) /\ NonEmpty(asMatrix)

\* C6 amended: every matrix Matrix::new returns as Ok from a source that
\* yields at least one record has ncols >= 1 and row count >= 1; from a
\* source that yields no records Matrix::new returns Ok with ncols = 0 and
\* no rows.
NonEmptyUnlessNoRecords(f, returned) ==
    /\ returned # <<>> =>
          IF Len(source) = 0
          THEN returned[1].ncols = 0 /\ Len(returned[1].elems) = 0
          ELSE returned[1].ncols >= 1 /\ Len(returned[1].elems) >= 1
    /\ (Len(source) = 0 /\ f.ret # Running) => (f.ret = <<"Ok">> /\ returned # <<>>)

C6_NonEmptyUnlessNoRecords ==
    /\ NonEmptyUnlessNoRecords(rsNew, rsMatrix)
    /\ NonEmptyUnlessNoRecords(asNew, asMatrix)

\* Both constructors returned a matrix with rows and columns.
C6_Witness ==
    /\ rsMatrix # <<>> /\ asMatrix # <<>>
    /\ rsMatrix[1].ncols >= 1 /\ Len(rsMatrix[1].elems) = Len(source)
    /\ asMatrix[1].ncols >= 1 /\ Len(asMatrix[1].elems) = Len(source)
    /\ Len(source) >= 1

\* ------------------------------------------------------------- C7
\* C7 (atomic construction): Matrix::new, reading rows one at a time, stops
\* with an error at the first row k (0-based) that fails to parse or has a
\* mismatching length and returns no matrix, although rows 0..k-1 are then in
\* both working vectors (and, for a mismatching length, row k in elems); a
\* caller sees an error or a matrix whose elems are the input rows and whose
\* sum table has one entry per input row.
Failing == { k \in 1 .. Len(source) :
                \/ ~source[k].ok
                \/ source[1].ok /\ Len(source[k].cols) # Len(source[1].cols) }

FirstFailing == CHOOSE k \in Failing : \A j \in Failing : k <= j

Atomic(f, table, returned) ==
    /\ returned # <<>> <=> f.ret = <<"Ok">>
    /\ f.ret = <<"Ok">> =>
          /\ Failing = {}
          /\ Len(returned[1].elems) = Len(source)
          /\ \A k \in 1 .. Len(source) : returned[1].elems[k] = source[k].cols
    /\ f.ret[1] \in {"ParseErr", "ShapeErr"} =>
          /\ Failing # {}
          /\ f.pos = FirstFailing - 1
          /\ Len(table) = f.pos
          /\ f.ret[1] = "ParseErr" <=> ~source[FirstFailing].ok
          /\ Len(f.elems) = IF f.ret[1] = "ShapeErr" THEN f.pos + 1 ELSE f.pos
    /\ f.ret = Running => returned = <<>>

OkWhenReversed(m, res) ==
    (endx < m.ncols /\ endy < Len(m.elems) /\ ~Ordered) => res[1] = "Ok"

C8_ReversedReturnsOk ==
    /\ RowsumAsked => OkWhenReversed(rsMatrix[1], rsSum)
    /\ AllsumAsked => OkWhenReversed(asMatrix[1], asSum)

\* ------------------------------------------------------------- C9
\* C9 (summed-area table invariant): throughout allsum::Matrix::new, every
\* entry allsum[i][c] of the table built so far is the sum of the original
\* cells with row <= i and column <= c.
C9_SummedAreaTable ==
    \A i \in 1 .. Len(asNew.allsum) :
        /\ Len(asNew.allsum[i]) = Len(source[i].cols)
        /\ \A c \in 1 .. Len(asNew.allsum[i]) :
              asNew.allsum[i][c] = BruteSum(0, 0, c - 1, i - 1)

\* allsum::Matrix::new has processed two rows of two or more columns.
C9_Witness ==
    /\ Len(asNew.allsum) >= 2
    /\ Len(asNew.allsum[2]) >= 2
    /\ asNew.allsum[2][2] = BruteSum(0, 0, 1, 1)
    /\ asNew.allsum[2][2] # asNew.allsum[1][2]

\* ------------------------------------------------------------- C10
\* C10 (reversed row range): for a query with startx <= endx < ncols,
\* endy < row count and endy + 1 < starty <= row count, rowsum's sum returns
\* Ok(0) and allsum's sum returns Ok of minus the sum of the original cells
\* in rows endy+1 .. starty-1 and columns startx .. endx, so the two differ
\* whenever that sum is not zero; for starty = endy + 1 both return Ok(0).
Skipped == BruteSum(startx, endy + 1, endx, starty - 1)

C10_ReversedRowsDiverge ==
    (BothAsked /\ InRange /\ startx <= endx /\ endy + 1 <= starty /\ starty <= Len(source)) =>
        /\ rsSum = <<"Ok", 0>>
        /\ asSum = <<"Ok", 0 - Skipped>>
        /\ Skipped # 0 => rsSum # asSum
        /\ starty = endy + 1 => asSum = <<"Ok", 0>>

\* The two methods answered a query with endy + 1 < starty differently.
C10_Witness ==
    /\ BothAsked /\ InRange /\ startx <= endx /\ endy + 1 < starty /\ starty <= Len(source)
    /\ 0 < startx
    /\ rsSum = <<"Ok", 0>> /\ asSum[1] = "Ok" /\ asSum[2] # 0

====
